---- MODULE Spec2Model ----
(***************************************************************************)
(* The wasmcloud:postgres provider (crates/provider-sqldb-postgres):       *)
(* two registries, each behind its own tokio RwLock, and the handlers that *)
(* read and mutate them.  Every handler invocation runs in a task; a task  *)
(* takes one step per lock acquisition or await point of the code.  An     *)
(* invocation starts at its first lock acquisition: nothing precedes it in *)
(* the code but the destructuring of the arguments.                        *)
(***************************************************************************)
EXTENDS Naturals, Sequences, FiniteSets, TLC

\* Total number of handler invocations explored.
MaxCalls == 4

\* Source identities (LinkConfig.source_id / Context.component).
Sources == {"srcA", "srcB"}
\* Concurrently running handler tasks.
Handlers == {"t1", "t2", "t3"}
\* Link configurations: no POSTGRES_ key at all, a configuration whose pool
\* construction succeeds, one whose construction fails.
Configs == {"none", "good", "bad"}
\* Statement texts handed to prepare.
Queries == {"INSERT"}

\* Context without a component.
NoCtx == "none"
\* HashMap::get(source_id) == None
NoPool == 0
\* A token string that prepare never returned.
BogusToken == 0

\* HashMap::get(token) == None
NoStatement == [statement |-> "none", owner |-> "none"]
\* Token identities: at most one per invocation.
Tokens == 1..MaxCalls

Locks == {"connections", "prepared_statements"}
Rank == [h \in Handlers |-> CASE h = "t1" -> 1 [] h = "t2" -> 2 [] OTHER -> 3]

VARIABLES
    connections,          \* HashMap<String, Pool>: source id -> pool instance
    prepared_statements,  \* HashMap<Token, (Statement, String)>
    held,                 \* per lock: the mode each task holds it in
    waitq,                \* per lock: FIFO queue of waiting <<task, mode>>
    task,                 \* per task: the invocation it runs and where it is
    response,             \* what the step just taken returned to its caller, if it returned
    nextPool,             \* identity of the next pool instance built
    nextToken,            \* identity of the next token generated
    calls,                \* invocations started so far
    issued,               \* history: token -> source prepare returned it to
    detached,             \* history: sources whose delete_link returned, no link since
    shut,                 \* history: sources valid at a shutdown call that returned, no link since
    shutTok,              \* history: tokens valid at a shutdown call that returned
    stale,                \* history: tokens issued before a delete_link of their owner returned
    lastDone,             \* history: per source, the last of link (constructible configuration), unlink, shutdown to take effect
    purged,               \* history: tokens issued before a delete_link of their owner that ran with no concurrent handler
    known                 \* history: the sources that invocations have named so far

vars == <<connections, prepared_statements, held, waitq, task, response,
          nextPool, nextToken, calls, issued, detached, shut, shutTok, stale,
          lastDone, purged, known>>

hist == <<issued, detached, shut, shutTok, stale, lastDone, purged>>

Idle == [pc |-> "idle", op |-> "none", source_id |-> NoCtx, config |-> "none",
         token |-> BogusToken, query |-> "none", pool |-> NoPool, builds |-> 0,
         after |-> {}, snap |-> {}, snapTok |-> {}, seq |-> 0]

NoResponse == [op |-> "none", source_id |-> NoCtx, config |-> "none",
               token |-> BogusToken, pool |-> NoPool, builds |-> 0,
               after |-> {}, result |-> "none"]

\* The value returned to the caller of invocation t.
Reply(t, r) ==
    [op |-> t.op, source_id |-> t.source_id, config |-> t.config,
     token |-> t.token, pool |-> t.pool, builds |-> t.builds,
     after |-> t.after, result |-> r]

\* A step that returns nothing to a caller.
Silent == response' = NoResponse

Init ==
    /\ connections = [s \in Sources |-> NoPool]
    /\ prepared_statements = [t \in Tokens |-> NoStatement]
    /\ held = [l \in Locks |-> [h \in Handlers |-> "none"]]
    /\ waitq = [l \in Locks |-> << >>]
    /\ task = [h \in Handlers |-> Idle]
    /\ response = NoResponse
    /\ nextPool = 1
    /\ nextToken = 1
    /\ calls = 0
    /\ issued = [t \in Tokens |-> "none"]
    /\ detached = {}
    /\ shut = {}
    /\ shutTok = {}
    /\ stale = {}
    /\ lastDone = [s \in Sources |-> "none"]
    /\ purged = {}
    /\ known = {}

----------------------------------------------------------------------------
\* tokio::sync::RwLock: any number of readers or one writer; waiters are
\* served first-in first-out, so a reader arriving behind a queued writer waits.

Compatible(l, m) ==
    IF m = "write"
    THEN \A k \in Handlers : held[l][k] = "none"
    ELSE \A k \in Handlers : held[l][k] # "write"

Queued(l, h) == \E i \in 1..Len(waitq[l]) : waitq[l][i][1] = h

Acquirable(l, h, m) ==
    /\ Compatible(l, m)
    /\ (IF waitq[l] = << >> THEN TRUE ELSE Head(waitq[l]) = <<h, m>>)

Dequeued(l) == IF waitq[l] = << >> THEN waitq ELSE [waitq EXCEPT ![l] = Tail(@)]

\* The lock and mode a task asks for at each .read().await / .write().await.
Wants(p) ==
    CASE p \in {"ensure_read", "query_read", "prepare_read", "exec_conn_read"}
            -> <<"connections", "read">>
      [] p \in {"ensure_write", "delete_conn_write", "shutdown_conn_write"}
            -> <<"connections", "write">>
      [] p = "exec_stmt_read" -> <<"prepared_statements", "read">>
      [] p \in {"prepare_write", "delete_stmt_write", "shutdown_stmt_write"}
            -> <<"prepared_statements", "write">>
      [] OTHER -> <<"none", "none">>

\* The lock is not free: the task joins the queue and waits.
Await(h) ==
    LET w == Wants(task[h].pc) IN
    /\ w[1] # "none"
    /\ ~Queued(w[1], h)
    /\ ~Acquirable(w[1], h, w[2])
    /\ waitq' = [waitq EXCEPT ![w[1]] = Append(@, <<h, w[2]>>)]
    /\ Silent
    /\ UNCHANGED <<connections, prepared_statements, held, task, nextPool,
                   nextToken, calls, hist>>

\* Task h is at p and the lock it asks for there is granted to it.
At(h, p) ==
    /\ task[h].pc = p
    /\ Acquirable(Wants(p)[1], h, Wants(p)[2])

\* An invocation is handed to the first task that is free.
Free(h) ==
    /\ task[h].pc = "idle"
    /\ calls < MaxCalls
    /\ \A j \in Handlers : task[j].pc = "idle" => Rank[h] <= Rank[j]

\* Invocation t starts in task h; tasks is the state of all tasks at the call.
\* Its first step is first(h, t, tasks) when the lock is free; it queues otherwise.
Enter(h, t, tasks) ==
    LET w == Wants(t.pc) IN
    /\ ~Acquirable(w[1], h, w[2])
    /\ task' = [tasks EXCEPT ![h] = t]
    /\ waitq' = [waitq EXCEPT ![w[1]] = Append(@, <<h, w[2]>>)]
    /\ Silent
    /\ UNCHANGED <<connections, prepared_statements, held, nextPool, nextToken>>

\* Invocation t returns r.
Return(h, t, tasks, r) ==
    /\ task' = [tasks EXCEPT ![h] = Idle]
    /\ response' = Reply(t, r)

\* Invocation t goes on as t2.
Goes(h, t2, tasks) ==
    /\ task' = [tasks EXCEPT ![h] = t2]
    /\ Silent

----------------------------------------------------------------------------
\* receive_link_config_as_target and ensure_pool

\* parse_prefixed_config_from_map("POSTGRES_", config) is Some(..)
parse_prefixed_config_from_map(c) == c # "none"

\* cfg.create_pool(..) / create_tls_pool(..) is Ok(pool)
create_pool(c) == c = "good"

\* Variant: the failure of ensure_pool is returned to the caller.
link_result_propagated(e) == e

\* What receive_link_config_as_target returns, given what ensure_pool returned:
\* lines 203-207 log the error and return Ok(()).
link_result(e) == "Ok"

\* The source a task's lookups are about: the caller for query and prepare,
\* the token's owner for exec.
Subject(t) ==
    IF t.op = "exec"
    THEN (IF t.token \in Tokens THEN issued[t.token] ELSE "none")
    ELSE t.source_id

\* A new link for s ends the window that a delete_link or shutdown opened.
Relinked(s) ==
    [k \in Handlers |->
        IF Subject(task[k]) = s
        THEN [task[k] EXCEPT !.after = @ \ {"detached", "shutdown"}]
        ELSE task[k]]

\* History: a link whose configuration is constructible has taken effect.
Effective(t) ==
    IF t.config = "good" THEN [lastDone EXCEPT ![t.source_id] = "link"]
    ELSE lastDone

\* Variant: ensure_pool builds a pool whether or not one is stored.
ensure_pool_check_rebuild(h, t, tasks) ==
    /\ waitq' = Dequeued("connections")
    /\ IF create_pool(t.config)
       THEN /\ Goes(h, [t EXCEPT !.pc = "ensure_write", !.pool = nextPool,
                                 !.builds = @ + 1], tasks)
            /\ nextPool' = nextPool + 1
            /\ UNCHANGED lastDone
       ELSE /\ Return(h, [t EXCEPT !.builds = @ + 1], tasks, link_result("Err"))
            /\ UNCHANGED <<nextPool, lastDone>>
    /\ UNCHANGED <<connections, prepared_statements, held, nextToken>>

\* Lines 62-79: the read-locked existence check, then the pool construction.
ensure_pool_check(h, t, tasks) ==
    /\ waitq' = Dequeued("connections")
    /\ IF connections[t.source_id] # NoPool
       THEN /\ Return(h, t, tasks, link_result("Ok"))
            /\ lastDone' = Effective(t)
            /\ UNCHANGED nextPool
       ELSE IF create_pool(t.config)
       THEN /\ Goes(h, [t EXCEPT !.pc = "ensure_write", !.pool = nextPool,
                                 !.builds = @ + 1], tasks)
            /\ nextPool' = nextPool + 1
            /\ UNCHANGED lastDone
       ELSE /\ Return(h, [t EXCEPT !.builds = @ + 1], tasks, link_result("Err"))
            /\ UNCHANGED <<nextPool, lastDone>>
    /\ UNCHANGED <<connections, prepared_statements, held, nextToken>>

\* Variant: a link without recognized keys drops the pool of the source.
receive_link_config_as_target_reset(h, s, c) ==
    LET t == [Idle EXCEPT !.pc = "ensure_read", !.op = "link",
                          !.source_id = s, !.config = c] IN
    /\ Free(h)
    /\ calls' = calls + 1
    /\ detached' = detached \ {s}
    /\ shut' = shut \ {s}
    /\ UNCHANGED <<issued, shutTok, stale, purged>>
    /\ IF ~parse_prefixed_config_from_map(c)
       THEN /\ Return(h, t, Relinked(s), link_result("Ok"))
            /\ connections' = [connections EXCEPT ![s] = NoPool]
            /\ lastDone' = [lastDone EXCEPT ![s] = "unlink"]
            /\ UNCHANGED <<prepared_statements, held, waitq, nextPool, nextToken>>
       ELSE \/ /\ Acquirable("connections", h, "read")
               /\ ensure_pool_check(h, t, Relinked(s))
            \/ Enter(h, t, Relinked(s)) /\ UNCHANGED lastDone

\* Lines 189-208
receive_link_config_as_target(h, s, c) ==
    LET t == [Idle EXCEPT !.pc = "ensure_read", !.op = "link",
                          !.source_id = s, !.config = c] IN
    /\ Free(h)
    /\ calls' = calls + 1
    /\ detached' = detached \ {s}
    /\ shut' = shut \ {s}
    /\ UNCHANGED <<issued, shutTok, stale, purged>>
    /\ IF ~parse_prefixed_config_from_map(c)
       THEN /\ Return(h, t, Relinked(s), link_result("Ok"))
            /\ UNCHANGED <<connections, prepared_statements, held, waitq,
                           nextPool, nextToken, lastDone>>
       ELSE \/ /\ Acquirable("connections", h, "read")
               /\ ensure_pool_check(h, t, Relinked(s))
            \/ Enter(h, t, Relinked(s)) /\ UNCHANGED lastDone

\* ensure_pool gets the read lock it waited for.
ensure_pool_granted(h) ==
    /\ At(h, "ensure_read")
    /\ ensure_pool_check(h, task[h], task)
    /\ UNCHANGED <<calls, issued, detached, shut, shutTok, stale, purged>>

\* Lines 81-84: connections.insert(source_id, pool) under the write lock.
ensure_pool_insert(h) ==
    /\ At(h, "ensure_write")
    /\ waitq' = Dequeued("connections")
    /\ connections' = [connections EXCEPT ![task[h].source_id] = task[h].pool]
    /\ lastDone' = Effective(task[h])
    /\ Return(h, task[h], task, link_result("Ok"))
    /\ UNCHANGED <<prepared_statements, held, nextPool, nextToken, calls,
                   issued, detached, shut, shutTok, stale, purged>>

----------------------------------------------------------------------------
\* query and do_query

\* The windows the source is in when a request for it starts.
After(s) == (IF s \in detached THEN {"detached"} ELSE {})
            \cup (IF s \in shut THEN {"shutdown"} ELSE {})

\* Variant: a query is refused as soon as a delete_link of its source is under way.
do_query_lookup_cancelled(h, t, tasks) ==
    /\ waitq' = Dequeued("connections")
    /\ IF \/ connections[t.source_id] = NoPool
          \/ \E k \in Handlers : /\ tasks[k].op = "unlink"
                                  /\ tasks[k].source_id = t.source_id
       THEN /\ Return(h, t, tasks, "PoolUnavailable")
            /\ UNCHANGED held
       ELSE /\ Goes(h, [t EXCEPT !.pc = "query_checkout",
                                 !.pool = connections[t.source_id]], tasks)
            /\ held' = [held EXCEPT !["connections"][h] = "read"]
    /\ UNCHANGED <<connections, prepared_statements, nextPool, nextToken>>

\* Variant: a query for a source without a pool answers with no rows.
do_query_lookup_default(h, t, tasks) ==
    /\ waitq' = Dequeued("connections")
    /\ IF connections[t.source_id] = NoPool
       THEN /\ Return(h, t, tasks, "Ok")
            /\ UNCHANGED held
       ELSE /\ Goes(h, [t EXCEPT !.pc = "query_checkout",
                                 !.pool = connections[t.source_id]], tasks)
            /\ held' = [held EXCEPT !["connections"][h] = "read"]
    /\ UNCHANGED <<connections, prepared_statements, nextPool, nextToken>>

\* Lines 94-99: the guard taken here lives until do_query returns.
do_query_lookup(h, t, tasks) ==
    /\ waitq' = Dequeued("connections")
    /\ IF connections[t.source_id] = NoPool
       THEN /\ Return(h, t, tasks, "PoolUnavailable")
            /\ UNCHANGED held
       ELSE /\ Goes(h, [t EXCEPT !.pc = "query_checkout",
                                 !.pool = connections[t.source_id]], tasks)
            /\ held' = [held EXCEPT !["connections"][h] = "read"]
    /\ UNCHANGED <<connections, prepared_statements, nextPool, nextToken>>

\* Lines 238-255
query(h, ctx) ==
    LET t == [Idle EXCEPT !.pc = "query_read", !.op = "query",
                          !.source_id = ctx, !.after = After(ctx)] IN
    /\ Free(h)
    /\ calls' = calls + 1
    /\ UNCHANGED hist
    /\ IF ctx = NoCtx
       THEN /\ Return(h, [t EXCEPT !.after = {}], task, "MissingSourceId")
            /\ UNCHANGED <<connections, prepared_statements, held, waitq,
                           nextPool, nextToken>>
       ELSE \/ /\ Acquirable("connections", h, "read")
               /\ do_query_lookup(h, t, task)
            \/ Enter(h, t, task)

\* do_query gets the read lock it waited for.
do_query_granted(h) ==
    /\ At(h, "query_read")
    /\ do_query_lookup(h, task[h], task)
    /\ UNCHANGED <<calls, hist>>

\* What a query reports once its pool is resolved.
query_outcome(checkout, backend) ==
    IF checkout = "fail" THEN "AcquisitionFailed" ELSE backend

\* Lines 101-103: pool.get().await
do_query_checkout(h) ==
    /\ task[h].pc = "query_checkout"
    /\ \E c \in {"ok", "fail"} :
          IF c = "ok"
          THEN /\ Goes(h, [task[h] EXCEPT !.pc = "query_backend"], task)
               /\ UNCHANGED held
          ELSE /\ Return(h, task[h], task, query_outcome(c, "none"))
               /\ held' = [held EXCEPT !["connections"][h] = "none"]
    /\ UNCHANGED <<connections, prepared_statements, waitq, nextPool,
                   nextToken, calls, hist>>

\* Lines 105-115: query_raw(..).await and the collection of the rows.
do_query_backend(h) ==
    /\ task[h].pc = "query_backend"
    /\ \E b \in {"Ok", "QueryExecutionFailed", "RowConversionFailed"} :
          Return(h, task[h], task, query_outcome("ok", b))
    /\ held' = [held EXCEPT !["connections"][h] = "none"]
    /\ UNCHANGED <<connections, prepared_statements, waitq, nextPool,
                   nextToken, calls, hist>>

----------------------------------------------------------------------------
\* prepare and do_statement_prepare

\* Lines 124-129: the guard taken here lives until do_statement_prepare returns.
do_statement_prepare_lookup(h, t, tasks) ==
    /\ waitq' = Dequeued("connections")
    /\ IF connections[t.source_id] = NoPool
       THEN /\ Return(h, t, tasks, "PoolUnavailable")
            /\ UNCHANGED held
       ELSE /\ Goes(h, [t EXCEPT !.pc = "prepare_checkout",
                                 !.pool = connections[t.source_id]], tasks)
            /\ held' = [held EXCEPT !["connections"][h] = "read"]
    /\ UNCHANGED <<connections, prepared_statements, nextPool, nextToken>>

\* Lines 261-276
prepare(h, ctx, q) ==
    LET t == [Idle EXCEPT !.pc = "prepare_read", !.op = "prepare",
                          !.source_id = ctx, !.query = q,
                          !.after = After(ctx)] IN
    /\ Free(h)
    /\ calls' = calls + 1
    /\ UNCHANGED hist
    /\ IF ctx = NoCtx
       THEN /\ Return(h, [t EXCEPT !.after = {}], task, "MissingSourceId")
            /\ UNCHANGED <<connections, prepared_statements, held, waitq,
                           nextPool, nextToken>>
       ELSE \/ /\ Acquirable("connections", h, "read")
               /\ do_statement_prepare_lookup(h, t, task)
            \/ Enter(h, t, task)

\* do_statement_prepare gets the read lock it waited for.
do_statement_prepare_granted(h) ==
    /\ At(h, "prepare_read")
    /\ do_statement_prepare_lookup(h, task[h], task)
    /\ UNCHANGED <<calls, hist>>

\* Lines 131-133: pool.get().await
do_statement_prepare_checkout(h) ==
    /\ task[h].pc = "prepare_checkout"
    /\ \E c \in {"ok", "fail"} :
          IF c = "ok"
          THEN /\ Goes(h, [task[h] EXCEPT !.pc = "prepare_backend"], task)
               /\ UNCHANGED held
          ELSE /\ Return(h, task[h], task, "AcquisitionFailed")
               /\ held' = [held EXCEPT !["connections"][h] = "none"]
    /\ UNCHANGED <<connections, prepared_statements, waitq, nextPool,
                   nextToken, calls, hist>>

\* Variant: a prepare generates the token of the prepare before it.
new_token_reused == IF nextToken > 1 THEN nextToken - 1 ELSE nextToken

\* Ulid::new(): a token no earlier call generated.
new_token == nextToken

\* Lines 135-139: client.prepare(query).await, then the token is generated.
do_statement_prepare_backend(h) ==
    /\ task[h].pc = "prepare_backend"
    /\ \E b \in {"ok", "fail"} :
          IF b = "ok"
          THEN /\ Goes(h, [task[h] EXCEPT !.pc = "prepare_write",
                                          !.token = new_token], task)
               /\ nextToken' = nextToken + 1
               /\ UNCHANGED held
          ELSE /\ Return(h, task[h], task, "PrepareFailed")
               /\ held' = [held EXCEPT !["connections"][h] = "none"]
               /\ UNCHANGED nextToken
    /\ UNCHANGED <<connections, prepared_statements, waitq, nextPool, calls, hist>>

\* Lines 141-147: the insertion under the statements write lock; both guards
\* of the function are dropped at its return.
do_statement_prepare_insert(h) ==
    /\ At(h, "prepare_write")
    /\ waitq' = Dequeued("prepared_statements")
    /\ prepared_statements' =
          [prepared_statements EXCEPT ![task[h].token] =
              [statement |-> task[h].query, owner |-> task[h].source_id]]
    /\ issued' = [issued EXCEPT ![task[h].token] = task[h].source_id]
    /\ held' = [held EXCEPT !["connections"][h] = "none"]
    /\ Return(h, task[h], task, "Ok")
    /\ UNCHANGED <<connections, nextPool, nextToken, calls, detached, shut,
                   shutTok, stale, lastDone, purged>>

----------------------------------------------------------------------------
\* exec and do_statement_execute

\* The tokens a caller can present: every token prepare returned, and one it never did.
Presentable == {BogusToken} \cup {t \in Tokens : issued[t] # "none"}

\* The windows a token is in when an exec of it starts.
AfterTok(tok) ==
    IF tok \in Tokens /\ issued[tok] # "none"
    THEN (IF issued[tok] \in detached THEN {"detached"} ELSE {})
         \cup (IF tok \in shutTok THEN {"shutdown"} ELSE {})
         \cup (IF tok \in purged THEN {"purged"} ELSE {})
    ELSE {}

\* statements.get(statement_token)
get_statement(tok) ==
    IF tok \in Tokens THEN prepared_statements[tok] ELSE NoStatement

\* Variant: exec looks for the pool of the token's source before the statement.
do_statement_execute_lookup_pool_first(h, t, tasks) ==
    /\ waitq' = Dequeued("prepared_statements")
    /\ IF Subject(t) \in Sources /\ connections[Subject(t)] = NoPool
       THEN /\ Return(h, t, tasks, "PoolUnavailable")
            /\ UNCHANGED held
       ELSE IF get_statement(t.token) = NoStatement
       THEN /\ Return(h, t, tasks, "StatementNotFound")
            /\ UNCHANGED held
       ELSE /\ Goes(h, [t EXCEPT !.pc = "exec_conn_read"], tasks)
            /\ held' = [held EXCEPT !["prepared_statements"][h] = "read"]
    /\ UNCHANGED <<connections, prepared_statements, nextPool, nextToken>>

\* Lines 156-161: the guard taken here lives until do_statement_execute returns.
do_statement_execute_lookup(h, t, tasks) ==
    /\ waitq' = Dequeued("prepared_statements")
    /\ IF get_statement(t.token) = NoStatement
       THEN /\ Return(h, t, tasks, "StatementNotFound")
            /\ UNCHANGED held
       ELSE /\ Goes(h, [t EXCEPT !.pc = "exec_conn_read"], tasks)
            /\ held' = [held EXCEPT !["prepared_statements"][h] = "read"]
    /\ UNCHANGED <<connections, prepared_statements, nextPool, nextToken>>

\* Lines 278-285
exec(h, ctx, tok) ==
    LET t == [Idle EXCEPT !.pc = "exec_stmt_read", !.op = "exec",
                          !.source_id = ctx, !.token = tok,
                          !.after = AfterTok(tok)] IN
    /\ Free(h)
    /\ calls' = calls + 1
    /\ UNCHANGED hist
    /\ \/ /\ Acquirable("prepared_statements", h, "read")
          /\ do_statement_execute_lookup(h, t, task)
       \/ Enter(h, t, task)

\* do_statement_execute gets the statements read lock it waited for.
do_statement_execute_granted(h) ==
    /\ At(h, "exec_stmt_read")
    /\ do_statement_execute_lookup(h, task[h], task)
    /\ UNCHANGED <<calls, hist>>

\* Variant: exec uses the pool of its caller.
exec_pool_source_caller(ctx, owner) == ctx

\* The source whose pool exec uses: connection_token of line 157, never _ctx.
exec_pool_source(ctx, owner) == owner

Released(h) == [l \in Locks |-> [held[l] EXCEPT ![h] = "none"]]

\* Lines 163-168: the pool of the statement's recorded owner.
do_statement_execute_pool(h) ==
    LET src == exec_pool_source(task[h].source_id,
                                get_statement(task[h].token).owner) IN
    /\ At(h, "exec_conn_read")
    /\ waitq' = Dequeued("connections")
    /\ IF src \notin Sources \/ connections[src] = NoPool
       THEN /\ Return(h, task[h], task, "PoolUnavailable")
            /\ held' = Released(h)
       ELSE /\ Goes(h, [task[h] EXCEPT !.pc = "exec_checkout",
                                       !.pool = connections[src]], task)
            /\ held' = [held EXCEPT !["connections"][h] = "read"]
    /\ UNCHANGED <<connections, prepared_statements, nextPool, nextToken,
                   calls, hist>>

\* Lines 169-171: pool.get().await
do_statement_execute_checkout(h) ==
    /\ task[h].pc = "exec_checkout"
    /\ \E c \in {"ok", "fail"} :
          IF c = "ok"
          THEN /\ Goes(h, [task[h] EXCEPT !.pc = "exec_backend"], task)
               /\ UNCHANGED held
          ELSE /\ Return(h, task[h], task, "AcquisitionFailed")
               /\ held' = Released(h)
    /\ UNCHANGED <<connections, prepared_statements, waitq, nextPool,
                   nextToken, calls, hist>>

\* Lines 173-179: client.execute_raw(statement, params).await
do_statement_execute_backend(h) ==
    /\ task[h].pc = "exec_backend"
    /\ \E b \in {"Ok", "QueryExecutionFailed"} : Return(h, task[h], task, b)
    /\ held' = Released(h)
    /\ UNCHANGED <<connections, prepared_statements, waitq, nextPool,
                   nextToken, calls, hist>>

----------------------------------------------------------------------------
\* delete_link

\* No task runs an invocation.
Quiescent == \A h \in Handlers : task[h].pc = "idle"

\* History: no invocation was in flight when t was called, none started since.
RanAlone(t) == t.seq = calls

\* Variant: the statements of every source are dropped.
retain_all(s) == [t \in Tokens |-> NoStatement]

\* prepared_statements.retain(|_, (_, src_id)| source_id != *src_id)
retain(s) ==
    [t \in Tokens |->
        IF prepared_statements[t].owner = s THEN NoStatement
        ELSE prepared_statements[t]]

\* Lines 215-217: the statements of the source go first, and the lock is dropped.
delete_link_statements(h, t, tasks) ==
    /\ waitq' = Dequeued("prepared_statements")
    /\ prepared_statements' = retain(t.source_id)
    /\ Goes(h, [t EXCEPT !.pc = "delete_conn_write"], tasks)
    /\ UNCHANGED <<connections, held, nextPool, nextToken>>

\* Line 214
delete_link(h, s) ==
    LET t == [Idle EXCEPT !.pc = "delete_stmt_write", !.op = "unlink",
                          !.source_id = s,
                          !.seq = IF Quiescent THEN calls + 1 ELSE 0] IN
    /\ Free(h)
    /\ calls' = calls + 1
    /\ UNCHANGED hist
    /\ \/ /\ Acquirable("prepared_statements", h, "write")
          /\ delete_link_statements(h, t, task)
       \/ Enter(h, t, task)

\* delete_link gets the statements write lock it waited for.
delete_link_granted(h) ==
    /\ At(h, "delete_stmt_write")
    /\ delete_link_statements(h, task[h], task)
    /\ UNCHANGED <<calls, hist>>

\* Variant: the pool of the source is left in the registry.
delete_link_pool_kept(h) ==
    LET s == task[h].source_id IN
    /\ At(h, "delete_conn_write")
    /\ waitq' = Dequeued("connections")
    /\ detached' = detached \cup {s}
    /\ stale' = stale \cup {t \in Tokens : issued[t] = s}
    /\ purged' = IF RanAlone(task[h]) THEN purged \cup {t \in Tokens : issued[t] = s}
                  ELSE purged
    /\ lastDone' = [lastDone EXCEPT ![s] = "unlink"]
    /\ Return(h, task[h], task, "Ok")
    /\ UNCHANGED <<connections, prepared_statements, held, nextPool, nextToken,
                   calls, issued, shut, shutTok>>

\* Variant: the pools of all sources are removed.
delete_link_pool_all(h) ==
    LET s == task[h].source_id IN
    /\ At(h, "delete_conn_write")
    /\ waitq' = Dequeued("connections")
    /\ connections' = [x \in Sources |-> NoPool]
    /\ detached' = detached \cup {s}
    /\ stale' = stale \cup {t \in Tokens : issued[t] = s}
    /\ purged' = IF RanAlone(task[h]) THEN purged \cup {t \in Tokens : issued[t] = s}
                  ELSE purged
    /\ lastDone' = [lastDone EXCEPT ![s] = "unlink"]
    /\ Return(h, task[h], task, "Ok")
    /\ UNCHANGED <<prepared_statements, held, nextPool, nextToken, calls,
                   issued, shut, shutTok>>

\* Lines 218-221: connections.remove(source_id)
delete_link_pool(h) ==
    LET s == task[h].source_id IN
    /\ At(h, "delete_conn_write")
    /\ waitq' = Dequeued("connections")
    /\ connections' = [connections EXCEPT ![s] = NoPool]
    /\ detached' = detached \cup {s}
    /\ stale' = stale \cup {t \in Tokens : issued[t] = s}
    /\ purged' = IF RanAlone(task[h]) THEN purged \cup {t \in Tokens : issued[t] = s}
                  ELSE purged
    /\ lastDone' = [lastDone EXCEPT ![s] = "unlink"]
    /\ Return(h, task[h], task, "Ok")
    /\ UNCHANGED <<prepared_statements, held, nextPool, nextToken, calls,
                   issued, shut, shutTok>>

----------------------------------------------------------------------------
\* shutdown

\* Lines 227-228: prepared_statements.drain(); the guard stays alive.
shutdown_statements(h, t, tasks) ==
    /\ waitq' = Dequeued("prepared_statements")
    /\ prepared_statements' = [k \in Tokens |-> NoStatement]
    /\ held' = [held EXCEPT !["prepared_statements"][h] = "write"]
    /\ Goes(h, [t EXCEPT !.pc = "shutdown_conn_write"], tasks)
    /\ UNCHANGED <<connections, nextPool, nextToken>>

\* Line 226
shutdown(h) ==
    LET t == [Idle EXCEPT !.pc = "shutdown_stmt_write", !.op = "shutdown",
                 !.after = IF \A s \in Sources : lastDone[s] = "shutdown"
                           THEN {"shutdown"} ELSE {},
                 !.snap = {s \in Sources : connections[s] # NoPool},
                 !.snapTok = {k \in Tokens : prepared_statements[k] # NoStatement}] IN
    /\ Free(h)
    /\ calls' = calls + 1
    /\ UNCHANGED hist
    /\ \/ /\ Acquirable("prepared_statements", h, "write")
          /\ shutdown_statements(h, t, task)
       \/ Enter(h, t, task)

\* shutdown gets the statements write lock it waited for.
shutdown_granted(h) ==
    /\ At(h, "shutdown_stmt_write")
    /\ shutdown_statements(h, task[h], task)
    /\ UNCHANGED <<calls, hist>>

\* Variant: a shutdown that finds nothing to close reports an error.
shutdown_pools_once(h) ==
    /\ At(h, "shutdown_conn_write")
    /\ waitq' = Dequeued("connections")
    /\ connections' = [s \in Sources |-> NoPool]
    /\ held' = Released(h)
    /\ shut' = shut \cup task[h].snap
    /\ shutTok' = shutTok \cup task[h].snapTok
    /\ lastDone' = [s \in Sources |-> "shutdown"]
    /\ Return(h, task[h], task,
              IF \A s \in Sources : connections[s] = NoPool
              THEN "AlreadyShutDown" ELSE "Ok")
    /\ UNCHANGED <<prepared_statements, nextPool, nextToken, calls, issued,
                   detached, stale, purged>>

\* Lines 229-231: connections.drain(); both guards are dropped at the return.
shutdown_pools(h) ==
    /\ At(h, "shutdown_conn_write")
    /\ waitq' = Dequeued("connections")
    /\ connections' = [s \in Sources |-> NoPool]
    /\ held' = Released(h)
    /\ shut' = shut \cup task[h].snap
    /\ shutTok' = shutTok \cup task[h].snapTok
    /\ lastDone' = [s \in Sources |-> "shutdown"]
    /\ Return(h, task[h], task, "Ok")
    /\ UNCHANGED <<prepared_statements, nextPool, nextToken, calls, issued,
                   detached, stale, purged>>

----------------------------------------------------------------------------
\* Source identities are opaque strings the code only compares: the first
\* identity an invocation names is srcA, a second one appears after it.
Callable == IF "srcA" \in known THEN Sources ELSE {"srcA"}

\* The invocation names source s.
Names(s) == known' = known \cup ({s} \cap Sources)

Next ==
    \E h \in Handlers :
        \/ \E s \in Callable, c \in Configs :
              receive_link_config_as_target(h, s, c) /\ Names(s)
        \/ ensure_pool_granted(h) /\ UNCHANGED known
        \/ ensure_pool_insert(h) /\ UNCHANGED known
        \/ \E ctx \in Callable \cup {NoCtx} : query(h, ctx) /\ Names(ctx)
        \/ do_query_granted(h) /\ UNCHANGED known
        \/ do_query_checkout(h) /\ UNCHANGED known
        \/ do_query_backend(h) /\ UNCHANGED known
        \/ \E ctx \in Callable \cup {NoCtx}, q \in Queries :
              prepare(h, ctx, q) /\ Names(ctx)
        \/ do_statement_prepare_granted(h) /\ UNCHANGED known
        \/ do_statement_prepare_checkout(h) /\ UNCHANGED known
        \/ do_statement_prepare_backend(h) /\ UNCHANGED known
        \/ do_statement_prepare_insert(h) /\ UNCHANGED known
        \/ \E ctx \in Callable \cup {NoCtx}, tok \in Presentable :
              exec(h, ctx, tok) /\ Names(ctx)
        \/ do_statement_execute_granted(h) /\ UNCHANGED known
        \/ do_statement_execute_pool(h) /\ UNCHANGED known
        \/ do_statement_execute_checkout(h) /\ UNCHANGED known
        \/ do_statement_execute_backend(h) /\ UNCHANGED known
        \/ \E s \in Callable : delete_link(h, s) /\ Names(s)
        \/ delete_link_granted(h) /\ UNCHANGED known
        \/ delete_link_pool(h) /\ UNCHANGED known
        \/ shutdown(h) /\ UNCHANGED known
        \/ shutdown_granted(h) /\ UNCHANGED known
        \/ shutdown_pools(h) /\ UNCHANGED known
        \/ Await(h) /\ UNCHANGED known

Spec == Init /\ [][Next]_vars

----------------------------------------------------------------------------
\* The task waits at pool.get().await or on a backend call.
Suspended(h) ==
    task[h].pc \in {"query_checkout", "query_backend", "prepare_checkout",
                    "prepare_backend", "exec_checkout", "exec_backend"}

\* C1: once a pool instance is stored for a source, no later insertion replaces
\* it by another instance: concurrent links of one source store exactly one pool.
C1_NoDuplicatePools ==
    [][\A s \in Sources :
          (connections[s] # NoPool /\ connections'[s] # NoPool)
             => connections'[s] = connections[s]]_vars

\* C2: a query or exec that starts after delete_link(S) returned, and returns
\* before any later link of S is issued, fails: the query with PoolUnavailable,
\* the exec of a token of S with StatementNotFound or PoolUnavailable.
C2_DetachInvalidates ==
    /\ (response.op = "query" /\ "detached" \in response.after)
          => response.result = "PoolUnavailable"
    /\ (response.op = "exec" /\ "detached" \in response.after)
          => response.result \in {"StatementNotFound", "PoolUnavailable"}

\* C3: once a delete_link(S) and every handler concurrent with it have finished,
\* no token of S issued before that delete_link returned is still registered.
C3_TokensInvalidatedAsUnit ==
    Quiescent => \A t \in stale : prepared_statements[t] = NoStatement

\* C4: when shutdown returns both registries are empty, and every request that
\* starts afterwards for a source or token that was valid before the call fails
\* its lookup.
C4_ShutdownInvalidates ==
    /\ response.op = "shutdown" =>
          /\ \A s \in Sources : connections[s] = NoPool
          /\ \A t \in Tokens : prepared_statements[t] = NoStatement
    /\ (response.op \in {"query", "prepare"} /\ "shutdown" \in response.after)
          => response.result = "PoolUnavailable"
    /\ (response.op = "exec" /\ "shutdown" \in response.after)
          => response.result \in {"StatementNotFound", "PoolUnavailable"}

\* Task k cannot take its next step before task h releases a lock: k asks for a
\* lock h holds, as a writer or behind a queued writer.
BlockedBy(k, h) ==
    LET w == Wants(task[k].pc) IN
    /\ w[1] # "none"
    /\ held[w[1]][h] # "none"
    /\ \/ w[2] = "write"
       \/ (waitq[w[1]] # << >> /\ Head(waitq[w[1]])[2] = "write")

\* C5: while a request of one source is suspended at checkout or in a backend
\* call, no handler that concerns another source waits for it.
C5_NoHeadOfLineBlocking ==
    \A h \in Handlers, k \in Handlers :
        (/\ Suspended(h)
         /\ k # h
         /\ Subject(task[h]) \in Sources
         /\ Subject(task[k]) \in Sources
         /\ Subject(task[k]) # Subject(task[h]))
        => ~BlockedBy(k, h)

\* C6: a task suspended at checkout or in a backend call holds no registry lock.
C6_NoLockAcrossSuspension ==
    \A h \in Handlers : Suspended(h) => \A l \in Locks : held[l][h] = "none"

\* C7: a query that resolved the pool of its source returns what its own
\* checkout and backend call produce, also while a delete_link of that source
\* is under way; a query reports the pool absent only when it is absent.
C7_DetachDoesNotCancelQuery ==
    /\ (response.op = "query" /\ response.result = "PoolUnavailable")
          => connections[response.source_id] = NoPool
    /\ (response.op = "query" /\ response.pool # NoPool)
          => response.result \in {"Ok", "AcquisitionFailed",
                                  "QueryExecutionFailed", "RowConversionFailed"}

\* C7 witness: a query of a source succeeds while a delete_link of that source,
\* which has removed the statements already, waits to remove the pool.
C7_Witness ==
    /\ response.op = "query"
    /\ response.result = "Ok"
    /\ \E k \in Handlers : /\ task[k].pc = "delete_conn_write"
                           /\ task[k].source_id = response.source_id

\* C8 as stated: when a link returns and nothing else runs, its source has a
\* pool iff that link, the most recent one, supplied a valid configuration.
C8_PoolIffLastLinkValid ==
    (response.op = "link" /\ Quiescent)
       => (connections[response.source_id] # NoPool <=> response.config = "good")

\* C8 amended: in every quiescent state a source has a pool iff the last call
\* to take effect for it, among links with a constructible configuration,
\* delete_link and shutdown, was such a link; links without recognized keys or
\* with a failing construction leave the pool as it was.
C8_PoolIffLastEffectiveLink ==
    Quiescent =>
       \A s \in Sources : connections[s] # NoPool <=> lastDone[s] = "link"

\* C8 witness: a link without recognized keys returned and the pool of an
\* earlier link is still there.
C8_Witness ==
    /\ Quiescent
    /\ response.op = "link"
    /\ response.config = "none"
    /\ connections[response.source_id] # NoPool

\* C9: every link returns Ok; it builds at most one pool; a link whose
\* configuration is not constructible leaves both registries as they were.
C9_LinkAlwaysSucceeds ==
    [][response'.op = "link" =>
          /\ response'.result = "Ok"
          /\ response'.builds <= 1
          /\ response'.config # "good"
                => UNCHANGED <<connections, prepared_statements>>]_vars

\* C9 witness: a link whose one pool construction failed returned Ok.
C9_Witness ==
    /\ response.op = "link"
    /\ response.config = "bad"
    /\ response.builds = 1
    /\ response.result = "Ok"

\* C10: exec uses the pool of the token's recorded owner whoever calls: the pool
\* it resolves is the owner's, it reports the pool absent only when the owner's
\* is, and the statement absent only when the token is.
C10_ExecIgnoresCaller ==
    /\ \A h \in Handlers :
          task[h].pc \in {"exec_checkout", "exec_backend"} =>
             /\ get_statement(task[h].token) # NoStatement
             /\ task[h].pool = connections[get_statement(task[h].token).owner]
    /\ (response.op = "exec" /\ response.result = "PoolUnavailable")
          => connections[get_statement(response.token).owner] = NoPool
    /\ (response.op = "exec" /\ response.result = "StatementNotFound")
          => get_statement(response.token) = NoStatement

\* C10 witness: an exec called by a source other than the token's owner succeeded.
C10_Witness ==
    /\ response.op = "exec"
    /\ response.result = "Ok"
    /\ response.source_id \in Sources
    /\ response.source_id # issued[response.token]

\* The step taken is one of task h.
Stepped(h) == task'[h].pc # task[h].pc

\* C11: a registry entry appears only as the result of a prepare that returns
\* Ok, under the token and owner of that prepare; an entry that stays keeps its
\* (statement, owner) pair; an entry disappears only in a step of a delete_link
\* of its recorded owner or of a shutdown.
C11_StatementLifetime ==
    [][\A t \in Tokens :
          /\ (prepared_statements[t] = NoStatement
                 /\ prepared_statements'[t] # NoStatement)
                => /\ response'.op = "prepare"
                   /\ response'.result = "Ok"
                   /\ response'.token = t
                   /\ prepared_statements'[t].owner = response'.source_id
          /\ (prepared_statements[t] # NoStatement
                 /\ prepared_statements'[t] # NoStatement)
                => prepared_statements'[t] = prepared_statements[t]
          /\ (prepared_statements[t] # NoStatement
                 /\ prepared_statements'[t] = NoStatement)
                => \E h \in Handlers :
                      /\ Stepped(h)
                      /\ \/ /\ task'[h].op = "unlink"
                            /\ task'[h].source_id = prepared_statements[t].owner
                         \/ task'[h].op = "shutdown"]_vars

\* C11 witness: a delete_link of one source returned and a statement of another
\* source is still registered under its owner.
C11_Witness ==
    /\ response.op = "unlink"
    /\ \E t \in Tokens :
          /\ prepared_statements[t] # NoStatement
          /\ prepared_statements[t].owner = issued[t]
          /\ prepared_statements[t].owner # response.source_id

\* C12: the first step of delete_link(S) removes exactly the statements whose
\* owner is S and leaves the pools alone; its second step removes exactly the
\* pool of S, leaves the statements alone and returns Ok; when no other handler
\* ran meanwhile, no statement of S is left at the return.
C12_DetachFrame ==
    [][\A h \in Handlers :
          /\ (/\ task'[h].op = "unlink"
              /\ task'[h].pc = "delete_conn_write"
              /\ task[h].pc # "delete_conn_write")
                => /\ prepared_statements' =
                        [t \in Tokens |->
                            IF prepared_statements[t].owner = task'[h].source_id
                            THEN NoStatement ELSE prepared_statements[t]]
                   /\ connections' = connections
          /\ (task[h].pc = "delete_conn_write" /\ task'[h].pc = "idle")
                => /\ connections' =
                        [s \in Sources |->
                            IF s = task[h].source_id THEN NoPool
                            ELSE connections[s]]
                   /\ prepared_statements' = prepared_statements
                   /\ response'.op = "unlink"
                   /\ response'.result = "Ok"
                   /\ RanAlone(task[h]) =>
                         \A t \in Tokens :
                            prepared_statements'[t].owner # task[h].source_id]_vars

\* C12 witness: delete_link(S) returned Ok, the pool and a statement of S are
\* gone and the pool of another source is in place.
C12_Witness ==
    /\ response.op = "unlink"
    /\ response.result = "Ok"
    /\ connections[response.source_id] = NoPool
    /\ \E t \in Tokens : /\ issued[t] = response.source_id
                          /\ prepared_statements[t] = NoStatement
    /\ \E s \in Sources : s # response.source_id /\ connections[s] # NoPool

\* C13: a link whose configuration has no recognized key returns Ok at once: no
\* pool is built, no lock is taken and both registries stay as they were.
C13_LinkWithoutConfigIsNoOp ==
    [][(response'.op = "link" /\ response'.config = "none")
          => /\ response'.result = "Ok"
             /\ response'.builds = 0
             /\ UNCHANGED <<connections, prepared_statements, nextPool,
                            held, waitq>>]_vars

\* C13 witness: a link without recognized keys returned Ok for a source that
\* has no pool, while another source has one.
C13_Witness ==
    /\ response.op = "link"
    /\ response.config = "none"
    /\ response.result = "Ok"
    /\ connections[response.source_id] = NoPool
    /\ \E s \in Sources : connections[s] # NoPool

\* C14: when the existence check of ensure_pool finds a pool for the source, the
\* link returns Ok without building anything and both registries, the stored
\* instance included, stay as they were, whatever the configuration.
C14_EnsureIdempotent ==
    [][(/\ response'.op = "link"
        /\ parse_prefixed_config_from_map(response'.config)
        /\ \A h \in Handlers : task[h].pc # "ensure_write" \/ ~Stepped(h)
        /\ connections[response'.source_id] # NoPool)
          => /\ response'.result = "Ok"
             /\ response'.builds = 0
             /\ UNCHANGED <<connections, prepared_statements, nextPool>>]_vars

\* C14 witness: a link with a configuration that cannot be constructed returned
\* Ok without a construction, the source having a pool already.
C14_Witness ==
    /\ response.op = "link"
    /\ response.config = "bad"
    /\ response.builds = 0
    /\ response.result = "Ok"
    /\ connections[response.source_id] # NoPool

\* Lookup failures for the requests in `identified`, which need a caller.
LookupFailures(identified) ==
    /\ \A h \in Handlers :
          /\ (Stepped(h) /\ task'[h].pc \in {"query_checkout", "prepare_checkout"})
                => connections[task'[h].source_id] # NoPool
          /\ (Stepped(h) /\ task'[h].pc = "exec_conn_read")
                => get_statement(task'[h].token) # NoStatement
    /\ (/\ response'.op \in {"query", "prepare"}
        /\ response'.source_id \in Sources
        /\ response'.pool = NoPool)
          => response'.result = "PoolUnavailable"
    /\ (response'.op = "exec" /\ get_statement(response'.token) = NoStatement)
          => response'.result = "StatementNotFound"
    /\ (response'.op \in identified /\ response'.source_id = NoCtx)
          => response'.result \in {"MissingSourceId", "StatementNotFound",
                                   "PoolUnavailable", "AcquisitionFailed",
                                   "QueryExecutionFailed"}
    /\ response'.result \in {"PoolUnavailable", "StatementNotFound",
                             "MissingSourceId"}
          => UNCHANGED <<connections, prepared_statements>>

\* C15 as stated: a query or prepare for a source without a pool returns
\* PoolUnavailable, an exec of an unregistered token StatementNotFound, every
\* request without a caller identity an error, and none of them changes a registry.
C15_LookupFailuresAsStated ==
    [][LookupFailures({"query", "prepare", "exec"})]_vars

\* C15 amended: as above, the requests that need a caller identity being query
\* and prepare; exec never looks at its caller.
C15_LookupFailuresChangeNothing ==
    [][LookupFailures({"query", "prepare"})]_vars

\* C15 witness: a query that started after a shutdown returned, for a source
\* that had a pool before it, returned PoolUnavailable.
C15_Witness ==
    /\ response.op = "query"
    /\ "shutdown" \in response.after
    /\ response.result = "PoolUnavailable"

\* Both registries are empty.
Drained ==
    /\ \A s \in Sources : connections[s] = NoPool
    /\ \A t \in Tokens : prepared_statements[t] = NoStatement

\* C16: every shutdown returns Ok with both registries empty, and a step of a
\* shutdown that finds both registries empty leaves them empty: a shutdown that
\* follows a shutdown ends in the state the first one ended in.
C16_ShutdownIdempotent ==
    [][/\ response'.op = "shutdown" => (response'.result = "Ok" /\ Drained')
       /\ \A h \in Handlers :
             (Stepped(h) /\ "shutdown" \in {task[h].op, task'[h].op} /\ Drained)
                => UNCHANGED <<connections, prepared_statements>>]_vars

\* C16 witness: a shutdown called after an earlier shutdown had returned, with
\* no pool stored since, returned Ok.
C16_Witness ==
    /\ response.op = "shutdown"
    /\ "shutdown" \in response.after
    /\ response.result = "Ok"
    /\ Drained

\* Task h asks for a lock that is not granted to it.
Waiting(h) ==
    LET w == Wants(task[h].pc) IN
    /\ w[1] # "none"
    /\ ~Acquirable(w[1], h, w[2])

\* C17: the invocations in flight are never all waiting for a lock: a lock that
\* is not granted is held by an invocation in flight, so when all of them wait,
\* none ever returns.
C17_NoDeadlock ==
    Quiescent \/ \E h \in Handlers : task[h].pc # "idle" /\ ~Waiting(h)

\* C18: when no invocation is in flight, every registered statement has an
\* owner whose pool is registered.
C18_NoOrphanTokens ==
    Quiescent =>
       \A t \in Tokens :
          prepared_statements[t] # NoStatement
             => connections[prepared_statements[t].owner] # NoPool

\* C19: a prepare that returns Ok has added one entry, under a token that was
\* not registered and that no prepare had returned, with its caller as owner;
\* the other entries and the pools are as before; a prepare that returns an
\* error has changed neither registry.
C19_EffectOfPrepare ==
    [][/\ (response'.op = "prepare" /\ response'.result = "Ok")
            => LET k == response'.token IN
               /\ k \in Tokens
               /\ prepared_statements[k] = NoStatement
               /\ issued[k] = "none"
               /\ prepared_statements'[k] # NoStatement
               /\ prepared_statements'[k].owner = response'.source_id
               /\ \A t \in Tokens \ {k} :
                     prepared_statements'[t] = prepared_statements[t]
               /\ connections' = connections
       /\ (response'.op = "prepare" /\ response'.result # "Ok")
            => UNCHANGED <<connections, prepared_statements>>]_vars

\* C19 witness: a prepare returned Ok with its token registered under its
\* caller, next to the entry of an earlier prepare.
C19_Witness ==
    /\ response.op = "prepare"
    /\ response.result = "Ok"
    /\ prepared_statements[response.token].owner = response.source_id
    /\ \E t \in Tokens \ {response.token} : prepared_statements[t] # NoStatement

\* C20: an exec of a token that is not registered returns StatementNotFound
\* whatever pools exist (exec changes no registry and keeps its read guards, so
\* the state it returns in has the entries it looked up); it returns PoolUnavailable only for a registered token
\* whose owner has no pool; an exec of a token of S that starts after a
\* delete_link(S) that ran with no concurrent handler returns StatementNotFound.
C20_ExecLookupOrder ==
    response.op = "exec" =>
       /\ get_statement(response.token) = NoStatement
             => response.result = "StatementNotFound"
       /\ response.result = "PoolUnavailable"
             => /\ get_statement(response.token) # NoStatement
                /\ connections[get_statement(response.token).owner] = NoPool
       /\ "purged" \in response.after
             => response.result = "StatementNotFound"

\* C20 witness: after a delete_link(S) that ran alone, an exec of a token of S
\* returned StatementNotFound.
C20_Witness ==
    /\ response.op = "exec"
    /\ "purged" \in response.after
    /\ issued[response.token] \in Sources
    /\ response.result = "StatementNotFound"

====
